---- MODULE Spec2Model ----
(***************************************************************************)
(* Model of rh/utils.py: run(), _kill_child_process(), _Popen.send_signal() *)
(* and sudo_run().                                                         *)
(*                                                                         *)
(* Granularity: one step per Python statement (or group of statements      *)
(* that no signal can observe).  Python runs signal handlers in the main   *)
(* thread between two statements, so a delivered signal pushes a handler   *)
(* frame on top of whatever frame is executing.  Time is counted in ticks  *)
(* of 0.1s, the unit of the sleep-and-recheck loops.                       *)
(***************************************************************************)
EXTENDS Integers, Sequences, FiniteSets, TLC

\* ---------------------------------------------------------------- bounds
MaxTimeout == 1
MaxSignals == 2
MaxBytes == 2

\* ------------------------------------------------------- program constants
SIGINT == 2
SIGKILL == 9
SIGTERM == 15
SpawnFailCode == 255
PipeBuf == 1

\* Python's None, and an optional value, are sequences of length 0 and 1.
None == << >>
Some(v) == <<v>>
IsNone(o) == o = << >>
Val(o) == o[1]

Signals == {SIGINT, SIGTERM}

\* Dispositions a process can have before run() is called.
PriorHandlers == {"SIG_DFL", "SIG_IGN", "py_raise", "py_return"}
Basic(k) == [kind |-> k, orig |-> ""]
\* functools.partial(_kill_child_process, proc, int_timeout, kill_timeout,
\* cmd, old): the temporary handler, closing over the previous handler.
Partial(old) == [kind |-> "partial", orig |-> old.kind]

ExitCodes == {0, 1}
\* The bytes a child may write: 'a', and the two bytes of U+00DF (each
\* alone is an invalid sequence).
ByteAlphabet == {97, 195, 159}
ReplacementChar == 65533

VARIABLES
    req,          \* the arguments of run()
    py3,          \* sys.version_info.major >= 3
    prior,        \* SIGINT/SIGTERM dispositions immediately before run()
    disp,         \* current process-wide dispositions
    pc,           \* position of run()'s own frame
    hstack,       \* frames of _kill_child_process above run()'s frame
    old_sigint, old_sigterm,
    stdout, stderr,       \* run()'s locals: None, a temporary file, STDOUT
    fileOut, fileErr,     \* the temporary files: contents and shared offset
    cmd_result,
    pend,         \* exception in flight, or the error object just constructed
    proc,         \* the _Popen handle: created?, returncode
    child,        \* the child process as the OS sees it
    outcome,      \* "none" while run() executes, then how it ended
    sigCount,     \* signals delivered so far
    killLog,      \* OS-level signal requests made against the child's pid
    sudoCalls,    \* sudo_run fallbacks made by send_signal
    lastSend,     \* what the last send_signal call did
    sudo,         \* the sudo_run call that led to run(), if any
    euid,         \* os.geteuid()
    cmd,          \* run()'s local cmd
    sigBudget,    \* signals the environment delivers during this call
    osKill,       \* the answers os.kill gives for this child
    environ,      \* os.environ
    env,          \* run()'s local env
    self,         \* the RunCommandError whose __init__ is executing
    fired,        \* signals the temporary handler has been called for
    call,         \* the last stringify() or cmdstr call and what it gave
    cwd,          \* the working directory of the process
    pre,          \* pre-upload.py: main()'s and _run_project_hooks()'s locals
    entries       \* calls of _kill_child_process made for each signal

vars == <<req, py3, prior, disp, pc, hstack, old_sigint, old_sigterm, stdout,
          stderr, fileOut, fileErr, cmd_result, pend, proc, child, outcome,
          sigCount, killLog, sudoCalls, lastSend, sudo, euid, cmd, sigBudget,
          osKill, environ, env, self, fired,
                   call, cwd, pre, entries>>

\* ------------------------------------------------------------ pure helpers

\* bytes.decode('utf-8', 'replace') restricted to one- and two-byte
\* sequences: an ASCII byte is itself, a lead byte 0xC2..0xDF followed by a
\* continuation byte 0x80..0xBF is one code point, anything else is U+FFFD.
IsCont(b) == b >= 128 /\ b <= 191
IsLead2(b) == b >= 194 /\ b <= 223
RECURSIVE Decode(_)
Decode(bs) ==
    IF bs = << >> THEN << >>
    ELSE IF bs[1] < 128 THEN <<bs[1]>> \o Decode(Tail(bs))
    ELSE IF IsLead2(bs[1]) /\ Len(bs) >= 2 /\ IsCont(bs[2])
         THEN <<(bs[1] % 32) * 64 + (bs[2] % 64)>> \o Decode(Tail(Tail(bs)))
    ELSE <<ReplacementChar>> \o Decode(Tail(bs))

\* A captured stream value: bytes as read from the sink, or text.
Bytes(bs) == [kind |-> "bytes", val |-> bs, msg |-> ""]
Text(cs) == [kind |-> "text", val |-> cs, msg |-> ""]
\* str(e) of the OSError: a native str (bytes on Python 2, text on Python 3).
NativeStr(m) == [kind |-> IF py3 THEN "text" ELSE "bytes", val |-> << >>, msg |-> m]

\* x.decode('utf-8', 'replace') exists on bytes only.
CanDecode(o) == IsNone(o) \/ Val(o).kind = "bytes"
DecodeField(o) ==
    IF IsNone(o) THEN o
    ELSE Some([kind |-> "text", val |-> Decode(Val(o).val), msg |-> Val(o).msg])

CommandResult(c, e, o, r) == [cmd |-> c, error |-> e, output |-> o, returncode |-> r]

\* A value that may be passed as the exception argument: its type and, for
\* an OSError, its errno.
Obj(t, e) == [type |-> t, errno |-> e]
ExceptionTypes == {"Exception", "OSError", "ValueError"}
\* isinstance(exception, Exception) (line 77).
IsException(x) == x.type \in ExceptionTypes

\* An exception: its class, the CommandResult it carries, its message and
\* the exception it wraps (None or one object).
Exc(k, r, m, x) == [kind |-> k, result |-> r, msg |-> m, exception |-> x]

\* The constructor without the isinstance test.
RejectsArgUnchecked(exception) == FALSE

\* Line 77: exception is not None and not isinstance(exception, Exception).
RejectsArg(exception) == ~IsNone(exception) /\ ~IsException(Val(exception))

\* RunCommandError(msg, result, exception) or a subclass k (lines 75-81):
\* the new error object, or the ValueError raised from __init__.
RunCommandError(k, msg, result, exception) ==
    IF RejectsArg(exception)
    THEN Exc("ValueError", None, "exception must be an exception instance", None)
    ELSE Exc(k, Some(result), msg, exception)

NewFile == [data |-> << >>, pos |-> 0]
\* write(2) of one byte at the shared file offset.
WriteAt(f, b) ==
    [data |-> SubSeq(f.data, 1, f.pos) \o <<b>> \o SubSeq(f.data, f.pos + 2, Len(f.data)),
     pos |-> f.pos + 1]
Seek0(f) == [f EXCEPT !.pos = 0]
ReadAll(f) == SubSeq(f.data, f.pos + 1, Len(f.data))

RECURSIVE SeqsUpTo(_, _)
SeqsUpTo(S, n) ==
    IF n = 0 THEN {<< >>}
    ELSE LET shorter == SeqsUpTo(S, n - 1)
         IN shorter \cup {Append(s, x) : s \in shorter, x \in S}

\* --------------------------------------------------------- the environment

\* A dict of strings is a function on its keys; extra_env keeps the order
\* of its entries (a sequence of <<key, value>>) because sudo_run emits them
\* in that order.
Keys(ee) == {ee[i][1] : i \in DOMAIN ee}
Lookup(ee, k) == ee[CHOOSE i \in DOMAIN ee : ee[i][1] = k][2]
\* d.update(ee): every entry of ee set in d, the other entries kept.
Update(d, ee) ==
    [k \in DOMAIN d \cup Keys(ee) |-> IF k \in Keys(ee) THEN Lookup(ee, k) ELSE d[k]]
\* extra_env if extra_env else {} (line 375).
ExtraOrEmpty(ee) == IF IsNone(ee) THEN << >> ELSE Val(ee)

\* Line 374 without the copies: the local env is the caller's dict, or
\* os.environ itself.
EnvObjectAliased(e) == IF IsNone(e) THEN "os.environ" ELSE "env"

\* Line 374: env.copy() or os.environ.copy(), a new dict in both cases.
EnvObject(e) == "copy"

\* ------------------------------------------------------------- sudo_run

\* '%s=%s' % (k, v) for every entry of extra_env, in the dict's order.
EnvTokens(ee) == [i \in 1..Len(ee) |-> ee[i][1] \o "=" \o ee[i][2]]

\* sudo_run without the already-root shortcut of line 148.
SudoArgvAlwaysWrapped(c, user, uid, extra_env) ==
    <<"sudo">>
    \o (IF user # "root" THEN <<"-u", user>> ELSE << >>)
    \o EnvTokens(IF IsNone(extra_env) THEN << >> ELSE Val(extra_env))
    \o <<"--">>
    \o c

\* sudo_run with the end-of-options marker ahead of the environment tokens.
SudoArgvMarkerFirst(c, user, uid, extra_env) ==
    IF user = "root" /\ uid = 0 THEN c
    ELSE <<"sudo">>
         \o (IF user # "root" THEN <<"-u", user>> ELSE << >>)
         \o <<"--">>
         \o EnvTokens(IF IsNone(extra_env) THEN << >> ELSE Val(extra_env))
         \o c

\* The argument vector sudo_run hands to run() (lines 146-166).
SudoArgv(c, user, uid, extra_env) ==
    IF user = "root" /\ uid = 0 THEN c
    ELSE <<"sudo">>
         \o (IF user # "root" THEN <<"-u", user>> ELSE << >>)
         \o EnvTokens(IF IsNone(extra_env) THEN << >> ELSE Val(extra_env))
         \o <<"--">>
         \o c

\* sudo_run with the first assertion only.
SudoRejectsStringOnly(c, shellKey) == c.form = "string"

\* The two assertions at the top of sudo_run (lines 143-144).
SudoRejects(c, shellKey) == c.form = "string" \/ shellKey # "absent"

\* ------------------------------------------------- the child and its handle

\* Popen.poll(): waitpid(WNOHANG); records the exit status once available.
\* For a child that something else has reaped waitpid fails with ECHILD
\* and Popen records status 0.
PollRC ==
    IF ~IsNone(proc.returncode) THEN proc.returncode
    ELSE IF child.state = "zombie" THEN Some(child.status)
    ELSE IF child.state = "gone" THEN Some(0)
    ELSE None
ProcAfterPoll == [proc EXCEPT !.returncode = PollRC]
ChildAfterPoll ==
    IF IsNone(proc.returncode) /\ child.state = "zombie"
    THEN [child EXCEPT !.state = "reaped"]
    ELSE child

\* The kernel queues sig for the child; SIGKILL cannot be overridden.
ChildSignalled(c, sig) ==
    IF c.state = "running"
    THEN [c EXCEPT !.pending = IF sig = SIGKILL \/ c.pending = SIGKILL
                               THEN SIGKILL ELSE sig]
    ELSE c

\* Where the child's two streams go.
OutDest == IF stdout = "file" THEN "fileOut" ELSE "inherit"
ErrDest == IF stderr = "STDOUT" THEN OutDest
           ELSE IF stderr = "file" THEN "fileErr" ELSE "inherit"
\* A pipe holds PipeBuf unread bytes; a file never fills up.
SinkFull(kind, f) == kind = "PIPE" /\ Len(f.data) - f.pos >= PipeBuf
ChildBlocked ==
    /\ child.state = "running"
    /\ \/ child.outPlan # << >> /\ SinkFull(stdout, fileOut)
       \/ child.errPlan # << >> /\ SinkFull(stderr, fileErr)

ChildWriteOut ==
    /\ child.state = "running" /\ child.pending = 0
    /\ child.outPlan # << >>
    /\ ~SinkFull(stdout, fileOut)
    /\ child' = [child EXCEPT !.outPlan = Tail(@),
                              !.wrote = Append(@, Head(child.outPlan))]
    /\ fileOut' = IF OutDest = "fileOut" THEN WriteAt(fileOut, Head(child.outPlan))
                  ELSE fileOut
    /\ UNCHANGED <<req, py3, prior, disp, pc, hstack, old_sigint, old_sigterm,
                   stdout, stderr, fileErr, cmd_result, pend, proc, outcome,
                   sigCount, killLog, sudoCalls, lastSend, sudo, euid, cmd,
                   sigBudget, osKill, environ, env, self, fired,
                   call, cwd, pre, entries>>

ChildWriteErr ==
    /\ child.state = "running" /\ child.pending = 0
    /\ child.outPlan = << >> /\ child.errPlan # << >>
    /\ ~SinkFull(stderr, fileErr)
    /\ child' = [child EXCEPT !.errPlan = Tail(@),
                              !.wroteErr = Append(@, Head(child.errPlan))]
    /\ fileOut' = IF ErrDest = "fileOut" THEN WriteAt(fileOut, Head(child.errPlan))
                  ELSE fileOut
    /\ fileErr' = IF ErrDest = "fileErr" THEN WriteAt(fileErr, Head(child.errPlan))
                  ELSE fileErr
    /\ UNCHANGED <<req, py3, prior, disp, pc, hstack, old_sigint, old_sigterm,
                   stdout, stderr, cmd_result, pend, proc, outcome,
                   sigCount, killLog, sudoCalls, lastSend, sudo, euid, cmd,
                   sigBudget, osKill, environ, env, self, fired,
                   call, cwd, pre, entries>>

\* The child finishes on its own with the exit code it was going to produce.
ChildExit ==
    /\ child.state = "running" /\ child.pending = 0
    /\ child.outPlan = << >> /\ child.errPlan = << >>
    /\ child' = [child EXCEPT !.state = "zombie", !.status = child.code]
    /\ UNCHANGED <<req, py3, prior, disp, pc, hstack, old_sigint, old_sigterm,
                   stdout, stderr, fileOut, fileErr, cmd_result, pend, proc,
                   outcome, sigCount, killLog, sudoCalls, lastSend, sudo, euid,
                   cmd, sigBudget, osKill, environ, env, self, fired,
                   call, cwd, pre, entries>>

\* The child takes a queued signal: SIGKILL always kills, SIGTERM kills
\* unless the child catches or ignores it.
ChildTakesSignal ==
    /\ child.state = "running" /\ child.pending # 0
    /\ \/ child' = [child EXCEPT !.state = "zombie", !.status = 0 - child.pending,
                                 !.pending = 0]
       \/ /\ child.pending = SIGTERM
          /\ child' = [child EXCEPT !.pending = 0]
    /\ UNCHANGED <<req, py3, prior, disp, pc, hstack, old_sigint, old_sigterm,
                   stdout, stderr, fileOut, fileErr, cmd_result, pend, proc,
                   outcome, sigCount, killLog, sudoCalls, lastSend, sudo, euid,
                   cmd, sigBudget, osKill, environ, env, self, fired,
                   call, cwd, pre, entries>>

\* Something else in the process (a SIGCHLD handler, another thread calling
\* wait) collects the exited child: its pid no longer exists.
ChildReapedElsewhere ==
    /\ child.state = "zombie"
    /\ "ESRCH" \in osKill
    /\ IsNone(proc.returncode)
    /\ child' = [child EXCEPT !.state = "gone"]
    /\ UNCHANGED <<req, py3, prior, disp, pc, hstack, old_sigint, old_sigterm,
                   stdout, stderr, fileOut, fileErr, cmd_result, pend, proc,
                   outcome, sigCount, killLog, sudoCalls, lastSend, sudo, euid,
                   cmd, sigBudget, osKill, environ, env, self, fired,
                   call, cwd, pre, entries>>

\* --------------------------------------------------- frames and exceptions

Top == hstack[Len(hstack)]
SetTop(f) == [hstack EXCEPT ![Len(hstack)] = f]
Pop == SubSeq(hstack, 1, Len(hstack) - 1)
AtTop(label) == hstack # << >> /\ Top.pc = label /\ outcome = "none"
InRun(label) == hstack = << >> /\ pc = label /\ outcome = "none"

\* A call of _kill_child_process(proc, int_timeout, kill_timeout, cmd,
\* original_handler, signum, frame); signum 0 stands for None.
Frame(signum, orig) ==
    [pc |-> "k175", signum |-> signum, orig |-> orig,
     int_t |-> req.int_timeout, kill_t |-> req.kill_timeout,
     slept1 |-> 0, slept2 |-> 0, termSent |-> FALSE, killSent |-> FALSE,
     ignored |-> 0]

\* Statements of run() outside both try blocks, or inside the outer finally
\* and after it: an exception raised there leaves run().
EscapePcs == {"l303", "l381", "l423", "l431", "l436", "l439"}

\* An exception that no _kill_child_process frame catches arrives in run()'s
\* frame at its current statement: inside the inner try (communicate) it
\* runs the inner finally, elsewhere inside the outer try it runs the outer
\* finally, elsewhere it leaves run().
RunRaise(e) ==
    /\ hstack' = << >>
    /\ pend' = Some(e)
    /\ IF pc \in EscapePcs THEN pc' = "done" /\ outcome' = "raised"
       ELSE IF pc = "l396" THEN pc' = "l398" /\ outcome' = outcome
       ELSE pc' = "l431" /\ outcome' = outcome

\* -------------------------------------------------- _kill_child_process

\* Lines 175-182: from a signal, ignore that signal from now on.
K175 ==
    /\ AtTop("k175")
    /\ disp' = IF Top.signum # 0
               THEN [disp EXCEPT ![Top.signum] = Basic("SIG_IGN")]
               ELSE disp
    /\ hstack' = SetTop([Top EXCEPT !.pc = "k186"])
    /\ UNCHANGED <<req, py3, prior, pc, old_sigint, old_sigterm, stdout,
                   stderr, fileOut, fileErr, cmd_result, pend, proc, child,
                   outcome, sigCount, killLog, sudoCalls, lastSend, sudo, euid,
                   cmd, sigBudget, osKill, environ, env, self, fired,
                   call, cwd, pre, entries>>

\* The escalation entered whatever the handle says.
NeedsKillAlways(rc) == TRUE

\* Line 186: proc.returncode is None and proc.pid is not None.
NeedsKill(rc) == IsNone(rc)
K186 ==
    /\ AtTop("k186")
    /\ hstack' = SetTop([Top EXCEPT !.pc = IF NeedsKill(proc.returncode)
                                           THEN "k188" ELSE "k207"])
    /\ UNCHANGED <<req, py3, prior, disp, pc, old_sigint, old_sigterm, stdout,
                   stderr, fileOut, fileErr, cmd_result, pend, proc, child,
                   outcome, sigCount, killLog, sudoCalls, lastSend, sudo, euid,
                   cmd, sigBudget, osKill, environ, env, self, fired,
                   call, cwd, pre, entries>>

\* The loop condition with the poll test inverted.
GraceContinueInverted(r, t) == ~IsNone(r) /\ t >= 0

\* The condition of both sleep-and-recheck loops (lines 188 and 193).
GraceContinue(r, t) == IsNone(r) /\ t >= 0

\* Lines 188-190: one evaluation of the loop condition and, if it holds,
\* one sleep of a tick.
K188 ==
    /\ AtTop("k188")
    /\ proc' = ProcAfterPoll
    /\ child' = ChildAfterPoll
    /\ hstack' = SetTop(IF GraceContinue(PollRC, Top.int_t)
                        THEN [Top EXCEPT !.int_t = @ - 1, !.slept1 = @ + 1]
                        ELSE [Top EXCEPT !.pc = "k192"])
    /\ UNCHANGED <<req, py3, prior, disp, pc, old_sigint, old_sigterm, stdout,
                   stderr, fileOut, fileErr, cmd_result, pend, outcome,
                   sigCount, killLog, sudoCalls, lastSend, sudo, euid, cmd,
                   sigBudget, osKill, environ, env, self, fired,
                   call, cwd, pre, entries>>

\* Lines 193-195.
K193 ==
    /\ AtTop("k193")
    /\ proc' = ProcAfterPoll
    /\ child' = ChildAfterPoll
    /\ hstack' = SetTop(IF GraceContinue(PollRC, Top.kill_t)
                        THEN [Top EXCEPT !.kill_t = @ - 1, !.slept2 = @ + 1]
                        ELSE [Top EXCEPT !.pc = "k197"])
    /\ UNCHANGED <<req, py3, prior, disp, pc, old_sigint, old_sigterm, stdout,
                   stderr, fileOut, fileErr, cmd_result, pend, outcome,
                   sigCount, killLog, sudoCalls, lastSend, sudo, euid, cmd,
                   sigBudget, osKill, environ, env, self, fired,
                   call, cwd, pre, entries>>

\* Line 197: if proc.poll() is None.
K197 ==
    /\ AtTop("k197")
    /\ proc' = ProcAfterPoll
    /\ child' = ChildAfterPoll
    /\ hstack' = SetTop([Top EXCEPT !.pc = IF IsNone(PollRC) THEN "k199" ELSE "k205"])
    /\ UNCHANGED <<req, py3, prior, disp, pc, old_sigint, old_sigterm, stdout,
                   stderr, fileOut, fileErr, cmd_result, pend, outcome,
                   sigCount, killLog, sudoCalls, lastSend, sudo, euid, cmd,
                   sigBudget, osKill, environ, env, self, fired,
                   call, cwd, pre, entries>>

\* ------------------------------------------------------ _Popen.send_signal

\* send_signal without its guard, as subprocess.Popen has it.
AlreadyReapedUnguarded(rc) == FALSE

\* Line 229: the handle's exit status is already recorded.
AlreadyReaped(rc) == ~IsNone(rc)

\* What os.kill(pid, signum) can answer: for a pid that exists ok, EPERM or
\* another error; ESRCH for a pid that does not exist.
KillOutcomes == {"ok", "EPERM", "EOTHER"}
KillAnswers == IF child.state = "gone" THEN {"ESRCH"} ELSE osKill \ {"ESRCH"}
ChildPid == 4242

Sent(f, sig) == IF sig = SIGTERM THEN [f EXCEPT !.termSent = TRUE]
                ELSE [f EXCEPT !.killSent = TRUE]

\* Line 254: e.errno == errno.ESRCH, answered by self.poll().
ReapsOnAnswer(o) == o = "ESRCH"

\* Lines 229-239 and 254-261: the guard, os.kill, and every answer but
\* EPERM.  An error other than EPERM and ESRCH is re-raised and caught by
\* line 200, which prints it and goes on to line 205.
SendSignal(label, sig, sudoLabel, nextLabel) ==
    /\ AtTop(label)
    /\ IF AlreadyReaped(proc.returncode)
       THEN /\ hstack' = SetTop([Top EXCEPT !.pc = nextLabel])
            /\ lastSend' = "noop"
            /\ UNCHANGED <<killLog, child, proc>>
       ELSE \E o \in KillAnswers :
            /\ killLog' = Append(killLog, [sig |-> sig, via |-> "os", reaped |-> FALSE])
            /\ lastSend' = o
            /\ child' = IF o = "ok" THEN ChildSignalled(child, sig) ELSE child
            /\ proc' = IF ReapsOnAnswer(o) THEN ProcAfterPoll ELSE proc
            /\ hstack' = SetTop(
                  CASE o = "ok" -> [Sent(Top, sig) EXCEPT !.pc = nextLabel]
                    [] o = "EPERM" -> [Sent(Top, sig) EXCEPT !.pc = sudoLabel]
                    [] ReapsOnAnswer(o) -> [Sent(Top, sig) EXCEPT !.pc = nextLabel]
                    [] OTHER -> [Sent(Top, sig) EXCEPT !.pc = "k205",
                                                       !.ignored = @ + 1])
    /\ UNCHANGED <<req, py3, prior, disp, pc, old_sigint, old_sigterm, stdout,
                   stderr, fileOut, fileErr, cmd_result, pend, outcome,
                   sigCount, sudoCalls, sudo, euid, cmd, sigBudget, osKill,
                   environ, env, self, fired,
                   call, cwd, pre, entries>>

\* How the nested sudo_run(['kill', ...], check=False) can end: with the
\* exit status of kill (0 delivered, 1 not delivered), with another exit
\* status of sudo, or without a child because sudo could not be spawned.
SudoKillResults == {0, 1, 2, SpawnFailCode}

\* The record of one sudo_run call made by send_signal (lines 244-246).
SudoCall(sig) ==
    [cmd |-> <<"kill", "-" \o ToString(sig), ToString(ChildPid)>>,
     argv |-> SudoArgv(<<"kill", "-" \o ToString(sig), ToString(ChildPid)>>,
                       "root", euid, None),
     redirect_stdout |-> TRUE, redirect_stderr |-> TRUE, check |-> FALSE]

\* Line 247: ret.returncode == 1.
TakenAsGone(ret) == ret = 1

\* Lines 240-253: the signal re-issued as sudo kill -<signum> <pid>; exit
\* status 1 is taken as "already gone" and the handle is polled.  When sudo
\* cannot be spawned the nested run() builds the result of line 427, whose
\* error text it then decodes (line 442): that raises where the text has
\* no decode method, and the result has status 255 where it has.
SudoKill(label, sig, nextLabel) ==
    /\ AtTop(label)
    /\ \E ret \in SudoKillResults :
        /\ child.state = "gone" => ret # 0
        /\ sudoCalls' = Append(sudoCalls, SudoCall(sig))
        /\ killLog' = Append(killLog, [sig |-> sig, via |-> "sudo",
                                       reaped |-> AlreadyReaped(proc.returncode)])
        /\ IF ret = SpawnFailCode /\ ~CanDecode(Some(NativeStr("ENOENT")))
           THEN /\ lastSend' = "sudo_raised"
                /\ RunRaise(Exc("AttributeError", None, "decode", None))
                /\ UNCHANGED <<child, proc>>
           ELSE /\ lastSend' = "sudo_" \o ToString(ret)
                /\ child' = IF ret = 0 THEN ChildSignalled(child, sig)
                            ELSE IF TakenAsGone(ret) THEN ChildAfterPoll
                            ELSE child
                /\ proc' = IF TakenAsGone(ret) THEN ProcAfterPoll ELSE proc
                /\ hstack' = SetTop([Top EXCEPT !.pc = nextLabel])
                /\ UNCHANGED <<pc, pend, outcome>>
    /\ UNCHANGED <<req, py3, prior, disp, old_sigint, old_sigterm, stdout,
                   stderr, fileOut, fileErr, cmd_result,
                   sigCount, sudo, euid, cmd, sigBudget, osKill, environ, env,
                   self, fired,
                   call, cwd, pre, entries>>

\* How the nested run() of sudo kill can end when a signal arrives while it
\* waits for sudo: with sudo's exit status, or with sudo ended by the
\* SIGTERM of the nested run()'s own escalation.
InterruptedResults == {0, 1, 2, 0 - SIGTERM}

\* Lines 240-253 with the signal being handled delivered again while the
\* nested run() waits for sudo (line 396 of that call).  The nested run()
\* has replaced the SIG_IGN of line 182 by its own temporary handler (lines
\* 385-388), so _kill_child_process is entered again, now for the sudo
\* process: it ignores the signal, ends or awaits sudo, finds SIG_IGN as the
\* handler to relay to and returns; the nested run() restores SIG_IGN and
\* returns sudo's status.
SudoKillInterrupted(label, sig, nextLabel) ==
    /\ AtTop(label)
    /\ Top.signum # 0
    /\ disp[Top.signum].kind = "SIG_IGN"
    /\ sigCount < sigBudget
    /\ \E ret \in InterruptedResults :
        /\ child.state = "gone" => ret # 0
        /\ sigCount' = sigCount + 1
        /\ entries' = [entries EXCEPT ![Top.signum] = @ + 1]
        /\ sudoCalls' = Append(sudoCalls, SudoCall(sig))
        /\ killLog' = Append(killLog, [sig |-> sig, via |-> "sudo",
                                       reaped |-> AlreadyReaped(proc.returncode)])
        /\ lastSend' = "sudo_" \o ToString(ret)
        /\ child' = IF ret = 0 THEN ChildSignalled(child, sig)
                    ELSE IF TakenAsGone(ret) THEN ChildAfterPoll
                    ELSE child
        /\ proc' = IF TakenAsGone(ret) THEN ProcAfterPoll ELSE proc
        /\ hstack' = SetTop([Top EXCEPT !.pc = nextLabel])
    /\ UNCHANGED <<req, py3, prior, disp, pc, old_sigint, old_sigterm, stdout,
                   stderr, fileOut, fileErr, cmd_result, pend, outcome,
                   sudo, euid, cmd, sigBudget, osKill, environ, env,
                   self, fired, call, cwd, pre>>

\* Line 192: proc.terminate().
K192 == SendSignal("k192", SIGTERM, "k192s", "k193")
K192Sudo == SudoKill("k192s", SIGTERM, "k193")
\* Line 199: proc.kill().
K199 == SendSignal("k199", SIGKILL, "k199s", "k205")
K199Sudo == SudoKill("k199s", SIGKILL, "k205")
K192SudoInterrupted == SudoKillInterrupted("k192s", SIGTERM, "k193")
K199SudoInterrupted == SudoKillInterrupted("k199s", SIGKILL, "k205")

\* Line 205: proc.wait() blocks until the child has exited, then reaps it.
K205 ==
    /\ AtTop("k205")
    /\ ~IsNone(PollRC)
    /\ proc' = ProcAfterPoll
    /\ child' = ChildAfterPoll
    /\ hstack' = SetTop([Top EXCEPT !.pc = "k207"])
    /\ UNCHANGED <<req, py3, prior, disp, pc, old_sigint, old_sigterm, stdout,
                   stderr, fileOut, fileErr, cmd_result, pend, outcome,
                   sigCount, killLog, sudoCalls, lastSend, sudo, euid, cmd,
                   sigBudget, osKill, environ, env, self, fired,
                   call, cwd, pre, entries>>

\* rh.signals.relay_signal(handler, signum, frame): FALSE when there is no
\* meaningful handler to relay to (the default disposition); a handler that
\* is None or SIG_IGN needs no call; any other handler is called.
RelaySignal(handler) == handler # "SIG_DFL"
RelayCalls(handler) == handler \in {"py_raise", "py_return"}

\* The handler never raising on its own.
RaisesTerminateNever(relayed) == FALSE

\* Line 207: if not rh.signals.relay_signal(...).
RaisesTerminate(relayed) == ~relayed

\* Lines 207-211.
K207 ==
    /\ AtTop("k207")
    /\ IF RaisesTerminate(RelaySignal(Top.orig))
       THEN RunRaise(RunCommandError("TerminateRunCommandError", "Received signal",
                         CommandResult(cmd, None, None, Some(Top.signum * 256)),
                         None))
       ELSE IF Top.orig = "py_raise"
       THEN RunRaise(Exc("PriorHandlerError", None, "", None))
       ELSE /\ hstack' = Pop
            /\ UNCHANGED <<pc, pend, outcome>>
    /\ UNCHANGED <<req, py3, prior, disp, old_sigint, old_sigterm, stdout,
                   stderr, fileOut, fileErr, cmd_result, proc, child,
                   sigCount, killLog, sudoCalls, lastSend, sudo, euid, cmd,
                   sigBudget, osKill, environ, env, self, fired,
                   call, cwd, pre, entries>>

\* ------------------------------------------------------- signal delivery

\* The kernel delivers SIGINT or SIGTERM to the process running run().
Deliver(s) ==
    /\ outcome = "none"
    /\ sigCount < sigBudget
    /\ sigCount' = sigCount + 1
    /\ CASE disp[s].kind \in {"SIG_IGN", "py_return"} ->
              UNCHANGED <<pc, hstack, pend, outcome>>
         [] disp[s].kind = "py_raise" ->
              RunRaise(Exc("PriorHandlerError", None, "", None))
         [] disp[s].kind = "SIG_DFL" ->
              /\ outcome' = "killed"
              /\ pc' = "done"
              /\ hstack' = << >>
              /\ pend' = pend
         [] OTHER ->
              /\ hstack' = Append(hstack, Frame(s, disp[s].orig))
              /\ UNCHANGED <<pc, pend, outcome>>
    /\ fired' = IF disp[s].kind = "partial" THEN fired \cup {s} ELSE fired
    /\ entries' = IF disp[s].kind = "partial"
                  THEN [entries EXCEPT ![s] = @ + 1] ELSE entries
    /\ UNCHANGED <<req, py3, prior, disp, old_sigint, old_sigterm, stdout,
                   stderr, fileOut, fileErr, cmd_result, proc, child,
                   killLog, sudoCalls, lastSend, sudo, euid, cmd, sigBudget,
                   osKill, environ, env, self, call, cwd, pre>>

DeliverSIGINT == Deliver(SIGINT)
DeliverSIGTERM == Deliver(SIGTERM)

\* ------------------------------------------------------------------ run()

\* _get_tempfile() (lines 316-332): an unbuffered temporary file.
GetTempfile == "file"

\* The test of the string form only: an array command passes with the flag.
CmdRejectedStringOnly(c, shell) == c.form = "string" /\ ~shell

\* Lines 364-370: the command and the shell flag have to agree.
CmdRejected(c, shell) ==
    \/ c.form = "string" /\ ~shell
    \/ c.form # "string" /\ shell
NormalCmd(c) ==
    IF c.form = "string" THEN <<"/bin/bash", "-c", c.toks[1]>> ELSE c.toks

\* Lines 303-377: defaults, capture sinks, command normalisation, the
\* child's environment.
L303 ==
    /\ InRun("l303")
    /\ LET rout == req.redirect_stdout \/ req.capture_output
           rerr == req.redirect_stderr \/ req.capture_output
       IN /\ stdout' = IF rout THEN GetTempfile ELSE "None"
          /\ stderr' = IF req.combine_stdout_stderr THEN "STDOUT"
                       ELSE IF rerr THEN GetTempfile ELSE "None"
    /\ cmd_result' = CommandResult(<< >>, None, None, None)
    /\ IF CmdRejected(req.cmd, req.shell)
       THEN /\ RunRaise(Exc("Exception", None, "Cannot run", None))
            /\ UNCHANGED <<cmd, env, environ, req>>
       ELSE LET base == IF IsNone(req.env) THEN environ ELSE Val(req.env)
                merged == Update(base, ExtraOrEmpty(req.extra_env))
            IN /\ cmd' = NormalCmd(req.cmd)
               /\ env' = merged
               \* update() writes into the object the local env refers to
               /\ environ' = IF EnvObject(req.env) = "os.environ" THEN merged
                             ELSE environ
               /\ req' = IF EnvObject(req.env) = "env"
                         THEN [req EXCEPT !.env = Some(merged)] ELSE req
               /\ pc' = "l381"
               /\ UNCHANGED <<hstack, pend, outcome>>
    /\ UNCHANGED <<py3, prior, disp, old_sigint, old_sigterm, fileOut,
                   fileErr, proc, child, sigCount, killLog, sudoCalls,
                   lastSend, sudo, euid, sigBudget, osKill, self, fired,
                   call, cwd, pre, entries>>

\* The OSError errnos a failed spawn can carry.
SpawnErrors == {"ENOENT", "EACCES"}

\* Line 381: proc = _Popen(...).
L381 ==
    /\ InRun("l381")
    /\ \/ /\ proc' = [created |-> TRUE, returncode |-> None]
          /\ child' = [child EXCEPT !.state = "running", !.env = Some(env),
                                    !.argv = cmd]
          /\ pc' = "l385"
          /\ cmd_result' = [cmd_result EXCEPT !.cmd = cmd]
          /\ pend' = pend
       \/ \E e \in SpawnErrors :
          /\ pend' = Some(Exc("OSError", None, e, None))
          /\ pc' = "l423"
          /\ cmd_result' = [cmd_result EXCEPT !.cmd = cmd]
          /\ child' = [child EXCEPT !.state = "failed", !.env = Some(env),
                                    !.argv = cmd, !.spawnErr = e]
          /\ proc' = proc
    /\ UNCHANGED <<req, py3, prior, disp, hstack, old_sigint, old_sigterm,
                   stdout, stderr, fileOut, fileErr, outcome, sigCount,
                   killLog, sudoCalls, lastSend, sudo, euid, cmd, sigBudget, osKill, environ, env, self, fired,
                   call, cwd, pre, entries>>

\* Lines 385-388.
L385 ==
    /\ InRun("l385")
    /\ old_sigint' = disp[SIGINT]
    /\ disp' = [disp EXCEPT ![SIGINT] = Partial(disp[SIGINT])]
    /\ pc' = "l390"
    /\ UNCHANGED <<req, py3, prior, hstack, old_sigterm, stdout, stderr,
                   fileOut, fileErr, cmd_result, pend, proc, child, outcome,
                   sigCount, killLog, sudoCalls, lastSend, sudo, euid, cmd,
                   sigBudget, osKill, environ, env, self, fired,
                   call, cwd, pre, entries>>

\* Lines 390-393.
L390 ==
    /\ InRun("l390")
    /\ old_sigterm' = disp[SIGTERM]
    /\ disp' = [disp EXCEPT ![SIGTERM] = Partial(disp[SIGTERM])]
    /\ pc' = "l395"
    /\ UNCHANGED <<req, py3, prior, hstack, old_sigint, stdout, stderr,
                   fileOut, fileErr, cmd_result, pend, proc, child, outcome,
                   sigCount, killLog, sudoCalls, lastSend, sudo, euid, cmd,
                   sigBudget, osKill, environ, env, self, fired,
                   call, cwd, pre, entries>>

\* Line 395: control enters the inner try.
L395 ==
    /\ InRun("l395")
    /\ pc' = "l396"
    /\ UNCHANGED <<req, py3, prior, disp, hstack, old_sigint, old_sigterm,
                   stdout, stderr, fileOut, fileErr, cmd_result, pend, proc,
                   child, outcome, sigCount, killLog, sudoCalls, lastSend,
                   sudo, euid, cmd, sigBudget, osKill, environ, env, self, fired,
                   call, cwd, pre, entries>>

\* Line 396: proc.communicate(input) waits for the child and reaps it;
\* neither stream is a pipe, so it returns (None, None).
L396 ==
    /\ InRun("l396")
    /\ ~IsNone(PollRC)
    /\ proc' = ProcAfterPoll
    /\ child' = ChildAfterPoll
    /\ cmd_result' = [cmd_result EXCEPT !.output = None, !.error = None]
    /\ pc' = "l398"
    /\ UNCHANGED <<req, py3, prior, disp, hstack, old_sigint, old_sigterm,
                   stdout, stderr, fileOut, fileErr, pend, outcome, sigCount,
                   killLog, sudoCalls, lastSend, sudo, euid, cmd, sigBudget, osKill, environ, env, self, fired,
                   call, cwd, pre, entries>>

\* Line 398.
L398 ==
    /\ InRun("l398")
    /\ disp' = [disp EXCEPT ![SIGINT] = old_sigint]
    /\ pc' = "l399"
    /\ UNCHANGED <<req, py3, prior, hstack, old_sigint, old_sigterm, stdout,
                   stderr, fileOut, fileErr, cmd_result, pend, proc, child,
                   outcome, sigCount, killLog, sudoCalls, lastSend, sudo, euid,
                   cmd, sigBudget, osKill, environ, env, self, fired,
                   call, cwd, pre, entries>>

\* Line 399.
L399 ==
    /\ InRun("l399")
    /\ disp' = [disp EXCEPT ![SIGTERM] = old_sigterm]
    /\ pc' = "l401"
    /\ UNCHANGED <<req, py3, prior, hstack, old_sigint, old_sigterm, stdout,
                   stderr, fileOut, fileErr, cmd_result, pend, proc, child,
                   outcome, sigCount, killLog, sudoCalls, lastSend, sudo, euid,
                   cmd, sigBudget, osKill, environ, env, self, fired,
                   call, cwd, pre, entries>>

\* The read-back without the seek: the offset stays where the child left it.
RewindOmitted(f) == f

\* stdout.seek(0) (lines 404 and 411).
Rewind(f) == Seek0(f)

\* The stderr test without the comparison against subprocess.STDOUT.
ReadsErrEvenCombined(se) == se # "None"

\* Line 401: if stdout.
ReadsOut(so) == so # "None"
\* Line 408: if stderr and stderr != subprocess.STDOUT.
ReadsErr(se) == se \notin {"None", "STDOUT"}

\* Lines 401-413: read the sinks back; then the inner finally ends and an
\* exception in flight goes on to the outer handlers.
L401 ==
    /\ InRun("l401")
    /\ IF ReadsOut(stdout)
       THEN /\ cmd_result' = [cmd_result EXCEPT
                  !.output = Some(Bytes(ReadAll(Rewind(fileOut)))),
                  !.error = IF ReadsErr(stderr)
                            THEN Some(Bytes(ReadAll(Rewind(fileErr)))) ELSE @]
            /\ fileOut' = [fileOut EXCEPT !.pos = Len(fileOut.data)]
       ELSE /\ cmd_result' = [cmd_result EXCEPT
                  !.error = IF ReadsErr(stderr)
                            THEN Some(Bytes(ReadAll(Rewind(fileErr)))) ELSE @]
            /\ fileOut' = fileOut
    /\ fileErr' = IF ReadsErr(stderr)
                  THEN [fileErr EXCEPT !.pos = Len(fileErr.data)] ELSE fileErr
    /\ pc' = IF IsNone(pend) THEN "l415" ELSE "l431"
    /\ UNCHANGED <<req, py3, prior, disp, hstack, old_sigint, old_sigterm,
                   stdout, stderr, pend, proc, child, outcome, sigCount,
                   killLog, sudoCalls, lastSend, sudo, euid, cmd, sigBudget, osKill, environ, env, self, fired,
                   call, cwd, pre, entries>>

\* The exit status test without the check flag.
MustRaiseIgnoringCheck(check, rc) == Val(rc) # 0

\* Line 417: check and proc.returncode.
MustRaise(check, rc) == check /\ Val(rc) # 0

\* Lines 415-421.
L415 ==
    /\ InRun("l415")
    /\ cmd_result' = [cmd_result EXCEPT !.returncode = proc.returncode]
    /\ pend' = IF MustRaise(req.check, proc.returncode)
               THEN Some(RunCommandError("RunCommandError", "cwd", cmd_result', None))
               ELSE None
    /\ pc' = "l431"
    /\ UNCHANGED <<req, py3, prior, disp, hstack, old_sigint, old_sigterm,
                   stdout, stderr, fileOut, fileErr, proc, child, outcome,
                   sigCount, killLog, sudoCalls, lastSend, sudo, euid, cmd,
                   sigBudget, osKill, environ, env, self, fired,
                   call, cwd, pre, entries>>

Hint == "; does the program need chmod a+x?"

\* The message with the hint appended whatever the errno.
EstrAlwaysHint(e) == e \o Hint

\* Lines 423-425: str(e), with the hint for EACCES.
Estr(e) == IF e = "EACCES" THEN e \o Hint ELSE e

\* The test of line 426 reversed: the failure is re-raised when check is clear.
ReturnsSpawnFailureInverted(check) == check

\* Line 426: if not check, the failure becomes a result instead of an error.
ReturnsSpawnFailure(check) == ~check

\* Lines 422-429: except OSError.
L423 ==
    /\ InRun("l423")
    /\ LET e == Val(pend).msg
       IN IF ReturnsSpawnFailure(req.check)
          THEN /\ cmd_result' = CommandResult(cmd, Some(NativeStr(Estr(e))), None,
                                              Some(SpawnFailCode))
               /\ pend' = None
          ELSE /\ pend' = Some(RunCommandError("RunCommandError", Estr(e),
                                   CommandResult(cmd, None, None, None),
                                   Some(Obj("OSError", e))))
               /\ cmd_result' = cmd_result
    /\ pc' = "l431"
    /\ UNCHANGED <<req, py3, prior, disp, hstack, old_sigint, old_sigterm,
                   stdout, stderr, fileOut, fileErr, proc, child, outcome,
                   sigCount, killLog, sudoCalls, lastSend, sudo, euid, cmd,
                   sigBudget, osKill, environ, env, self, fired,
                   call, cwd, pre, entries>>

\* Lines 430-436: the final cleanup calls _kill_child_process(proc, ...,
\* None, None, None) when a process was created.
L431 ==
    /\ InRun("l431")
    /\ hstack' = IF proc.created THEN <<Frame(0, "None")>> ELSE << >>
    /\ pc' = "l436"
    /\ UNCHANGED <<req, py3, prior, disp, old_sigint, old_sigterm, stdout,
                   stderr, fileOut, fileErr, cmd_result, pend, proc, child,
                   outcome, sigCount, killLog, sudoCalls, lastSend, sudo, euid,
                   cmd, sigBudget, osKill, environ, env, self, fired,
                   call, cwd, pre, entries>>

\* End of the outer finally: an exception in flight leaves run().
L436 ==
    /\ InRun("l436")
    /\ IF IsNone(pend)
       THEN pc' = "l439" /\ outcome' = outcome
       ELSE pc' = "done" /\ outcome' = "raised"
    /\ UNCHANGED <<req, py3, prior, disp, hstack, old_sigint, old_sigterm,
                   stdout, stderr, fileOut, fileErr, cmd_result, pend, proc,
                   child, sigCount, killLog, sudoCalls, lastSend,
                   sudo, euid, cmd, sigBudget, osKill, environ, env, self, fired,
                   call, cwd, pre, entries>>

\* Lines 438-444: decode and return.
L439 ==
    /\ InRun("l439")
    /\ IF CanDecode(cmd_result.output) /\ CanDecode(cmd_result.error)
       THEN /\ cmd_result' = [cmd_result EXCEPT !.output = DecodeField(@),
                                                !.error = DecodeField(@)]
            /\ pc' = "done"
            /\ outcome' = "returned"
            /\ UNCHANGED <<hstack, pend>>
       ELSE /\ RunRaise(Exc("AttributeError", None, "decode", None))
            /\ cmd_result' = [cmd_result EXCEPT !.output = DecodeField(@)]
    /\ UNCHANGED <<req, py3, prior, disp, old_sigint, old_sigterm, stdout,
                   stderr, fileOut, fileErr, proc, child, sigCount, killLog,
                   sudoCalls, lastSend, sudo, euid, cmd, sigBudget, osKill, environ, env, self, fired,
                   call, cwd, pre, entries>>

\* ------------------------------------------------------------- sudo_run()

\* Lines 142-166: the assertions, then run(cmd) or run(sudo_cmd) with
\* extra_env popped from the keyword arguments.
S142 ==
    /\ InRun("s142")
    /\ IF SudoRejects(sudo.cmd, sudo.shellKey)
       THEN /\ pend' = Some(Exc("AssertionError", None, "not supported", None))
            /\ outcome' = "raised"
            /\ pc' = "done"
            /\ UNCHANGED <<req, sudo>>
       ELSE /\ req' = [req EXCEPT
                  !.cmd = [form |-> "array",
                           toks |-> SudoArgv(sudo.cmd.toks, sudo.user, euid,
                                             sudo.extra_env)],
                  !.extra_env = IF sudo.user = "root" /\ euid = 0
                                THEN sudo.extra_env ELSE None]
            /\ sudo' = [sudo EXCEPT !.ranRun = TRUE]
            /\ pc' = "l303"
            /\ UNCHANGED <<pend, outcome>>
    /\ UNCHANGED <<py3, prior, disp, hstack, old_sigint, old_sigterm, stdout,
                   stderr, fileOut, fileErr, cmd_result, proc, child, sigCount,
                   killLog, sudoCalls, lastSend, euid, cmd, sigBudget, osKill, environ, env, self, fired,
                   call, cwd, pre, entries>>

\* ------------------------------------------- RunCommandError.__init__
\* called directly, as utils_unittest.py does

\* What a caller may pass as the exception argument: nothing, exception
\* instances, and values that are no exception instance (a string, an
\* integer, the class Exception itself).
ExceptionArgs ==
    {None} \cup {Some(Obj(t, "")) : t \in ExceptionTypes \cup {"str", "int", "type"}}

\* The results and messages a caller may pass: each captured field absent,
\* empty or one character, the exit status absent or 1, the message empty
\* or not.
FieldArgs == {None, Some(Text(<< >>)), Some(Text(<<97>>))}
ResultArgs ==
    {CommandResult(<<"mycmd">>, e, o, r) :
        e \in FieldArgs, o \in FieldArgs, r \in {None, Some(1)}}
MsgArgs == {"", "msg"}

\* Line 76: the three attributes are assigned first.
E76 ==
    /\ InRun("e76")
    /\ \E x \in ExceptionArgs, r \in ResultArgs, m \in MsgArgs :
          self' = Some(Exc("RunCommandError", Some(r), m, x))
    /\ pc' = "e77"
    /\ UNCHANGED <<req, py3, prior, disp, hstack, old_sigint, old_sigterm,
                   stdout, stderr, fileOut, fileErr, cmd_result, pend, proc,
                   child, outcome, sigCount, killLog, sudoCalls, lastSend,
                   sudo, euid, cmd, sigBudget, osKill, environ, env, fired,
                   call, cwd, pre, entries>>

\* Lines 77-81: the isinstance test, then Exception.__init__ and args.
E77 ==
    /\ InRun("e77")
    /\ LET e == RunCommandError("RunCommandError", Val(self).msg,
                                Val(Val(self).result), Val(self).exception)
       IN /\ pend' = Some(e)
          /\ outcome' = IF e.kind = "ValueError" THEN "raised" ELSE "constructed"
    /\ pc' = "done"
    /\ UNCHANGED <<req, py3, prior, disp, hstack, old_sigint, old_sigterm,
                   stdout, stderr, fileOut, fileErr, cmd_result, proc,
                   child, sigCount, killLog, sudoCalls, lastSend,
                   sudo, euid, cmd, sigBudget, osKill, environ, env, self, fired,
                   call, cwd, pre, entries>>

\* ------------------------------------------ RunCommandError.stringify

\* One element of the list stringify joins: which part of the text it is,
\* the type of the string and the string.
Item(part, kind, val) == [part |-> part, kind |-> kind, val |-> val]
NativeKind == IF py3 THEN "text" ELSE "bytes"

\* Truth value of a captured field (lines 98 and 100): None and the empty
\* string are false.
Truthy(f) == ~IsNone(f) /\ (Val(f).val # << >> \/ Val(f).msg # "")

\* Lines 95-96: 'return code: %s; command: %s' % (returncode, cmdstr); the
\* command vector stands for its rendering by cmdstr.
HeadLine(result) ==
    <<"return code: ", result.returncode, "; command: ", result.cmd>>

\* Lines 94-103: the list of items.
Items(e, error, output) ==
    LET result == Val(e.result)
    IN <<Item("head", NativeKind, HeadLine(result))>>
       \o (IF error /\ Truthy(result.error)
           THEN <<Item("error", Val(result.error).kind, Val(result.error))>>
           ELSE << >>)
       \o (IF output /\ Truthy(result.output)
           THEN <<Item("output", Val(result.output).kind, Val(result.output))>>
           ELSE << >>)
       \o (IF e.msg # "" THEN <<Item("msg", NativeKind, e.msg)>> ELSE << >>)

\* Line 104: '\n'.join(items) takes str items only; on Python 3 a bytes
\* item raises TypeError, on Python 2 bytes is str.
JoinRaises(items) == py3 /\ \E i \in 1..Len(items) : items[i].kind = "bytes"

\* The joined text is kept as the list of its lines.
Stringified(fn, e, error, output) ==
    [fn |-> fn, error |-> error, output |-> output,
     raised |-> JoinRaises(Items(e, error, output)),
     items |-> IF JoinRaises(Items(e, error, output)) THEN << >>
               ELSE Items(e, error, output)]

\* The object at hand is a RunCommandError: constructed by a caller, or
\* raised by run() and caught by its caller.
HasError ==
    /\ pc = "done" /\ outcome \in {"constructed", "raised"}
    /\ ~IsNone(pend)
    /\ Val(pend).kind \in {"RunCommandError", "TerminateRunCommandError"}

\* Lines 83-104: e.stringify(error, output).
E94 ==
    /\ HasError /\ IsNone(call)
    /\ \E error \in BOOLEAN, output \in BOOLEAN :
          call' = Some(Stringified("stringify", Val(pend), error, output))
    /\ UNCHANGED <<req, py3, prior, disp, pc, hstack, old_sigint, old_sigterm,
                   stdout, stderr, fileOut, fileErr, cmd_result, pend, proc,
                   child, outcome, sigCount, killLog, sudoCalls, lastSend,
                   sudo, euid, cmd, sigBudget, osKill, environ, env, self,
                   fired, cwd, pre, entries>>

\* Lines 106-107: str(e).
E107 ==
    /\ HasError /\ IsNone(call)
    /\ call' = Some(Stringified("str", Val(pend), TRUE, TRUE))
    /\ UNCHANGED <<req, py3, prior, disp, pc, hstack, old_sigint, old_sigterm,
                   stdout, stderr, fileOut, fileErr, cmd_result, pend, proc,
                   child, outcome, sigCount, killLog, sudoCalls, lastSend,
                   sudo, euid, cmd, sigBudget, osKill, environ, env, self,
                   fired, cwd, pre, entries>>

\* -------------------------------------------------- CommandResult.cmdstr

\* A token is a sequence of characters.  The characters a shell treats
\* specially that tokens are drawn from: the blank, the single quote and
\* the backslash.
ShellSpecial == {" ", "'", "\\"}
CmdAlphabet == {"a", " ", "'"}

\* The quoted form without the escape of embedded single quotes.
QuotedBodyUnescaped(tok) == tok

\* The body of a single-quoted word: an embedded single quote closes the
\* quotes, is written escaped and opens them again.
RECURSIVE QuotedBody(_)
QuotedBody(tok) ==
    IF tok = << >> THEN << >>
    ELSE (IF Head(tok) = "'" THEN <<"'", "\\", "'", "'">> ELSE <<Head(tok)>>)
         \o QuotedBody(Tail(tok))

\* rh.shell.shell_quote: a token is quoted only if it contains a character
\* the shell treats specially, in single quotes.
ShellQuote(tok) ==
    IF \E i \in 1..Len(tok) : tok[i] \in ShellSpecial
    THEN <<"'">> \o QuotedBody(tok) \o <<"'">>
    ELSE tok

\* rh.shell.cmd_to_str: the quoted tokens joined by one blank.
RECURSIVE CmdToStr(_)
CmdToStr(c) ==
    IF c = << >> THEN << >>
    ELSE IF Len(c) = 1 THEN ShellQuote(c[1])
    ELSE ShellQuote(c[1]) \o <<" ">> \o CmdToStr(Tail(c))

\* The argument vectors a result may hold.
MaxTokLen == 2
MaxArgs == 2
ArgVectors == SeqsUpTo(SeqsUpTo(CmdAlphabet, MaxTokLen), MaxArgs)

\* Lines 60-64: CommandResult(cmd=v), as utils_unittest.py builds it.
C60 ==
    /\ InRun("c60")
    /\ \E v \in ArgVectors : cmd_result' = CommandResult(v, None, None, None)
    /\ pc' = "c67"
    /\ UNCHANGED <<req, py3, prior, disp, hstack, old_sigint, old_sigterm,
                   stdout, stderr, fileOut, fileErr, pend, proc, child,
                   outcome, sigCount, killLog, sudoCalls, lastSend, sudo,
                   euid, cmd, sigBudget, osKill, environ, env, self, fired,
                   call, cwd, pre, entries>>

\* Lines 66-69: result.cmdstr.
C67 ==
    /\ InRun("c67")
    /\ call' = Some([fn |-> "cmdstr", cmd |-> cmd_result.cmd,
                     ret |-> CmdToStr(cmd_result.cmd)])
    /\ pc' = "done"
    /\ outcome' = "returned"
    /\ UNCHANGED <<req, py3, prior, disp, hstack, old_sigint, old_sigterm,
                   stdout, stderr, fileOut, fileErr, cmd_result, pend, proc,
                   child, sigCount, killLog, sudoCalls, lastSend, sudo,
                   euid, cmd, sigBudget, osKill, environ, env, self, fired,
                   cwd, pre, entries>>

\* --------------------------------------------------------- pre-upload.py

\* A project of main()'s project_list with its worktree: the directory and
\* what its hooks do (none enabled, all pass, one fails).
ProjectDirs == {"/repo/a", "/repo/b"}
HookKinds == {"none", "pass", "fail"}
Projects == [dir : ProjectDirs, hooks : HookKinds]
NoProject == [dir |-> "", hooks |-> "none"]

\* Lines 210-215: the loop of main() over zip(project_list, worktree_list),
\* which calls _run_project_hooks(project, proj_dir=worktree).
M213 ==
    /\ InRun("m213")
    /\ IF pre.project_list = << >>
       THEN /\ pc' = "m217"
            /\ pre' = pre
       ELSE /\ pc' = "p151"
            /\ pre' = [pre EXCEPT !.project = Head(pre.project_list),
                                  !.project_list = Tail(pre.project_list)]
    /\ UNCHANGED <<req, py3, prior, disp, hstack, old_sigint, old_sigterm,
                   stdout, stderr, fileOut, fileErr, cmd_result, pend, proc,
                   child, outcome, sigCount, killLog, sudoCalls, lastSend,
                   sudo, euid, cmd, sigBudget, osKill, environ, env, self,
                   fired, call, cwd, entries>>

\* Lines 151-153: pwd = os.getcwd(); os.chdir(proj_dir).
P151 ==
    /\ InRun("p151")
    /\ pre' = [pre EXCEPT !.pwd = cwd]
    /\ cwd' = pre.project.dir
    /\ pc' = "p156"
    /\ UNCHANGED <<req, py3, prior, disp, hstack, old_sigint, old_sigterm,
                   stdout, stderr, fileOut, fileErr, cmd_result, pend, proc,
                   child, outcome, sigCount, killLog, sudoCalls, lastSend,
                   sudo, euid, cmd, sigBudget, osKill, environ, env, self,
                   fired, call, entries>>

\* Lines 156-158: with no hook enabled the function returns True at once,
\* and main() (lines 214-215) goes on with the next project.
P156 ==
    /\ InRun("p156")
    /\ IF pre.project.hooks = "none"
       THEN /\ pre' = [pre EXCEPT !.ret = TRUE, !.returns = @ + 1]
            /\ pc' = "m213"
       ELSE /\ pre' = pre
            /\ pc' = "p161"
    /\ UNCHANGED <<req, py3, prior, disp, hstack, old_sigint, old_sigterm,
                   stdout, stderr, fileOut, fileErr, cmd_result, pend, proc,
                   child, outcome, sigCount, killLog, sudoCalls, lastSend,
                   sudo, euid, cmd, sigBudget, osKill, environ, env, self,
                   fired, call, cwd, entries>>

\* Lines 161-188: the environment repo would set, then every hook on the
\* commit; ret is False when the results of a hook are failures.
P161 ==
    /\ InRun("p161")
    /\ environ' = Update(environ, <<<<"REPO_PATH", pre.project.dir>>,
                                    <<"PREUPLOAD_COMMIT", "commit">>>>)
    /\ pre' = [pre EXCEPT !.ret = (pre.project.hooks = "pass")]
    /\ pc' = "p190"
    /\ UNCHANGED <<req, py3, prior, disp, hstack, old_sigint, old_sigterm,
                   stdout, stderr, fileOut, fileErr, cmd_result, pend, proc,
                   child, outcome, sigCount, killLog, sudoCalls, lastSend,
                   sudo, euid, cmd, sigBudget, osKill, env, self,
                   fired, call, cwd, entries>>

\* Lines 190-191: os.chdir(pwd); return ret; and back in main() lines
\* 214-215.
P190 ==
    /\ InRun("p190")
    /\ cwd' = pre.pwd
    /\ pre' = [pre EXCEPT !.found_error = @ \/ ~pre.ret, !.returns = @ + 1]
    /\ pc' = "m213"
    /\ UNCHANGED <<req, py3, prior, disp, hstack, old_sigint, old_sigterm,
                   stdout, stderr, fileOut, fileErr, cmd_result, pend, proc,
                   child, outcome, sigCount, killLog, sudoCalls, lastSend,
                   sudo, euid, cmd, sigBudget, osKill, environ, env, self,
                   fired, call, entries>>

\* Lines 217-223: sys.exit(1) after a failure.
M217 ==
    /\ InRun("m217")
    /\ outcome' = IF pre.found_error THEN "exited" ELSE "returned"
    /\ pc' = "done"
    /\ UNCHANGED <<req, py3, prior, disp, hstack, old_sigint, old_sigterm,
                   stdout, stderr, fileOut, fileErr, cmd_result, pend, proc,
                   child, sigCount, killLog, sudoCalls, lastSend,
                   sudo, euid, cmd, sigBudget, osKill, environ, env, self,
                   fired, call, cwd, pre, entries>>

\* ------------------------------------------------------------ initial states

MaxEnv == 2
EnvPool == {<<"FOO", "bar">>, <<"A", "b">>, <<"X", "">>}
\* extra_env dicts: sequences of entries with distinct keys, in dict order.
EnvDicts == {ee \in SeqsUpTo(EnvPool, MaxEnv) :
                \A i, j \in 1..Len(ee) : i # j => ee[i][1] # ee[j][1]}

Timeouts == (0 - 1)..MaxTimeout

Request(check, rout, rerr, comb, cap, it, kt, c, shell, e, ee) ==
    [check |-> check, redirect_stdout |-> rout, redirect_stderr |-> rerr,
     combine_stdout_stderr |-> comb, capture_output |-> cap,
     int_timeout |-> it, kill_timeout |-> kt, cmd |-> c, shell |-> shell,
     env |-> e, extra_env |-> ee]

ArrayCmd(toks) == [form |-> "array", toks |-> toks]
StringCmd(str) == [form |-> "string", toks |-> <<str>>]

NoSudo == [used |-> FALSE, cmd |-> ArrayCmd(<< >>), user |-> "root",
           shellKey |-> "absent", extra_env |-> None, ranRun |-> FALSE]

\* The directory the process is started in, and pre-upload.py not running.
StartDir == "/repo"
NoMain == [used |-> FALSE]

\* os.environ of an ordinary process.
Ambient == ("PATH" :> "/bin")

\* The state when run() (or sudo_run(), entry "s142") is entered.
Start(r, p3, pr, code, outPlan, errPlan, entry, sd, uid, budget, answers) ==
    /\ req = r
    /\ py3 = p3
    /\ prior = pr
    /\ disp = pr
    /\ pc = entry
    /\ hstack = << >>
    /\ old_sigint = Basic("unset")
    /\ old_sigterm = Basic("unset")
    /\ stdout = "None"
    /\ stderr = "None"
    /\ fileOut = NewFile
    /\ fileErr = NewFile
    /\ cmd_result = CommandResult(<< >>, None, None, None)
    /\ pend = None
    /\ proc = [created |-> FALSE, returncode |-> None]
    /\ child = [state |-> "unspawned", status |-> 0, pending |-> 0, code |-> code,
                outPlan |-> outPlan, errPlan |-> errPlan, wrote |-> << >>,
                wroteErr |-> << >>, env |-> None, argv |-> << >>,
                spawnErr |-> ""]
    /\ outcome = "none"
    /\ sigCount = 0
    /\ killLog = << >>
    /\ sudoCalls = << >>
    /\ lastSend = "none"
    /\ sudo = sd
    /\ euid = uid
    /\ cmd = << >>
    /\ sigBudget = budget
    /\ osKill = answers
    /\ env = << >>
    /\ self = None
    /\ fired = {}
    /\ call = None
    /\ cwd = StartDir
    /\ entries = [s \in Signals |-> 0]

Dispositions(i, t) == (SIGINT :> Basic(i)) @@ (SIGTERM :> Basic(t))
\* A Python process that never touched its handlers: default_int_handler
\* raises KeyboardInterrupt, SIGTERM has the default disposition.
PythonDefaults == Dispositions("py_raise", "SIG_DFL")

HandlerPairs ==
    {Dispositions(h, h) : h \in PriorHandlers}
    \cup {PythonDefaults, Dispositions("SIG_IGN", "py_raise")}

\* run() of an ordinary child under the prior handler pairs and every pair
\* of grace periods: a child that would exit 0 with up to MaxSignals
\* signals, a child that would exit 1 with one signal.
InitSignals ==
    \E it \in Timeouts, kt \in Timeouts, pr \in HandlerPairs, code \in ExitCodes :
        /\ Start(Request(TRUE, FALSE, FALSE, FALSE, FALSE, it, kt,
                      ArrayCmd(<<"prog">>), FALSE, None, None),
              TRUE, pr, code, << >>, << >>, "l303", NoSudo,
              1000, IF code = 0 THEN MaxSignals ELSE 1, {"ok"})
        /\ environ = Ambient
        /\ pre = NoMain
    /\ pre = NoMain

\* run() of a child the caller may not signal, or whose signalling fails.
InitDenied ==
    \E it \in Timeouts, kt \in Timeouts, check \in BOOLEAN, p3 \in BOOLEAN,
       answers \in {{"EPERM"}, {"EOTHER"}, {"ok", "ESRCH"}, KillOutcomes} :
        /\ Start(Request(check, FALSE, FALSE, FALSE, FALSE, it, kt,
                      ArrayCmd(<<"prog">>), FALSE, None, None),
              p3, PythonDefaults, 0, << >>, << >>, "l303", NoSudo,
              1000, 1, answers)
        /\ environ = Ambient
        /\ pre = NoMain
    /\ pre = NoMain

\* run() under every capture configuration, of a child that writes.
InitIO ==
    \E check \in BOOLEAN, rout \in BOOLEAN, rerr \in BOOLEAN, comb \in BOOLEAN,
       cap \in BOOLEAN, p3 \in BOOLEAN, code \in ExitCodes,
       outPlan \in SeqsUpTo(ByteAlphabet, MaxBytes), errPlan \in {<< >>, <<97>>},
       budget \in {0, 1} :
        /\ cap => ~rout /\ ~rerr
        /\ budget = 1 => Len(outPlan) <= 1 /\ errPlan = << >>
        /\ Start(Request(check, rout, rerr, comb, cap, 0, 0,
                         ArrayCmd(<<"prog">>), FALSE, None, None),
                 p3, PythonDefaults, code, outPlan, errPlan, "l303", NoSudo,
                 1000, budget, {"ok"})
        /\ environ = Ambient
        /\ pre = NoMain
    /\ pre = NoMain

\* sudo_run() with every command form, user, effective uid and extra_env.
InitSudo ==
    \E c \in {ArrayCmd(<<"ls">>), ArrayCmd(<<"ls", "-l">>), StringCmd("foo")},
       user \in {"root", "nobody"}, uid \in {0, 1000},
       shellKey \in {"absent", "True", "False"},
       ee \in {None} \cup {Some(d) : d \in EnvDicts} :
        /\ Start(Request(TRUE, FALSE, FALSE, FALSE, FALSE, 0, 0, ArrayCmd(<< >>),
                      FALSE, None, None),
              TRUE, PythonDefaults, 0, << >>, << >>, "s142",
              [used |-> TRUE, cmd |-> c, user |-> user, shellKey |-> shellKey,
               extra_env |-> ee, ranRun |-> FALSE],
              uid, 0, {"ok"})
        /\ environ = Ambient
        /\ pre = NoMain
    /\ pre = NoMain

\* run() with every form of command and both values of the shell flag.
InitShell ==
    \E c \in {ArrayCmd(<<"ls">>), ArrayCmd(<<"ls", "-l">>), StringCmd("ls -l"),
              StringCmd("")},
       shell \in BOOLEAN, pr \in {PythonDefaults, Dispositions("SIG_DFL", "SIG_DFL")},
       budget \in {0, 1} :
        /\ Start(Request(TRUE, FALSE, FALSE, FALSE, FALSE, 0, 0, c, shell,
                         None, None),
                 TRUE, pr, 0, << >>, << >>, "l303", NoSudo, 1000, budget, {"ok"})
        /\ environ = Ambient
        /\ pre = NoMain
    /\ pre = NoMain

EnvNames == {"PATH", "A"}
EnvValues == {"/bin", "b"}
\* Every dict over EnvNames.
EnvMaps == UNION {[D -> EnvValues] : D \in SUBSET EnvNames}

\* run() with every base environment and every extra_env.
InitEnv ==
    \E ambient \in EnvMaps, e \in {None} \cup {Some(d) : d \in EnvMaps},
       ee \in {None} \cup {Some(d) : d \in EnvDicts} :
        /\ Start(Request(TRUE, FALSE, FALSE, FALSE, FALSE, 0, 0,
                         ArrayCmd(<<"prog">>), FALSE, e, ee),
                 TRUE, PythonDefaults, 0, << >>, << >>, "l303", NoSudo, 1000, 0,
                 {"ok"})
        /\ environ = ambient
        /\ pre = NoMain

\* RunCommandError(...) constructed by a caller.
InitConstruct ==
    /\ Start(Request(TRUE, FALSE, FALSE, FALSE, FALSE, 0, 0, ArrayCmd(<< >>),
                     FALSE, None, None),
             TRUE, PythonDefaults, 0, << >>, << >>, "e76", NoSudo, 1000, 0, {"ok"})
    /\ environ = Ambient
    /\ pre = NoMain

\* run() of a child the caller may not signal, with two signals and prior
\* handlers that return.
InitDeniedTwice ==
    \E pr \in {Dispositions("py_return", "py_return"),
                Dispositions("py_return", "SIG_IGN")},
       p3 \in BOOLEAN :
        /\ Start(Request(TRUE, FALSE, FALSE, FALSE, FALSE, 0, 0,
                         ArrayCmd(<<"prog">>), FALSE, None, None),
                 p3, pr, 0, << >>, << >>, "l303", NoSudo, 1000, 2, {"EPERM"})
        /\ environ = Ambient
        /\ pre = NoMain

\* main(project_list, worktree_list) of pre-upload.py with every list of up
\* to MaxProjects projects.
MaxProjects == 2
InitMain ==
    \E pl \in SeqsUpTo(Projects, MaxProjects) :
        /\ Start(Request(TRUE, FALSE, FALSE, FALSE, FALSE, 0, 0, ArrayCmd(<< >>),
                         FALSE, None, None),
                 TRUE, PythonDefaults, 0, << >>, << >>, "m213", NoSudo, 1000, 0,
                 {"ok"})
        /\ environ = Ambient
        /\ pre = [used |-> TRUE, project_list |-> pl, project |-> NoProject,
                  pwd |-> "", ret |-> TRUE, found_error |-> FALSE, returns |-> 0]

\* CommandResult(cmd=...).cmdstr read by a caller.
InitCmdstr ==
    /\ Start(Request(TRUE, FALSE, FALSE, FALSE, FALSE, 0, 0, ArrayCmd(<< >>),
                     FALSE, None, None),
             TRUE, PythonDefaults, 0, << >>, << >>, "c60", NoSudo, 1000, 0, {"ok"})
    /\ environ = Ambient
    /\ pre = NoMain

Init ==
    \/ InitSignals \/ InitDenied \/ InitIO \/ InitSudo
    \/ InitShell \/ InitEnv \/ InitConstruct \/ InitCmdstr
    \/ InitDeniedTwice \/ InitMain

Next ==
    \/ S142
    \/ L303 \/ L381 \/ L385 \/ L390 \/ L395 \/ L396 \/ L398 \/ L399 \/ L401
    \/ L415 \/ L423 \/ L431 \/ L436 \/ L439
    \/ K175 \/ K186 \/ K188 \/ K192 \/ K192Sudo \/ K193 \/ K197 \/ K199
    \/ K199Sudo \/ K192SudoInterrupted \/ K199SudoInterrupted \/ K205 \/ K207
    \/ DeliverSIGINT \/ DeliverSIGTERM
    \/ ChildWriteOut \/ ChildWriteErr \/ ChildExit \/ ChildTakesSignal
    \/ ChildReapedElsewhere
    \/ E76 \/ E77 \/ E94 \/ E107
    \/ C60 \/ C67
    \/ M213 \/ P151 \/ P156 \/ P161 \/ P190 \/ M217

Spec == Init /\ [][Next]_vars

\* The steps of the one Python thread: run() and the handlers on top of it.
ProgramStep ==
    \/ L303 \/ L381 \/ L385 \/ L390 \/ L395 \/ L396 \/ L398 \/ L399 \/ L401
    \/ L415 \/ L423 \/ L431 \/ L436 \/ L439
    \/ K175 \/ K186 \/ K188 \/ K192 \/ K192Sudo \/ K193 \/ K197 \/ K199
    \/ K199Sudo \/ K205 \/ K207

LiveNext ==
    \/ ProgramStep
    \/ DeliverSIGINT \/ DeliverSIGTERM
    \/ ChildExit \/ ChildTakesSignal \/ ChildReapedElsewhere

\* run() of a child it may not be able to signal, where the interpreter
\* always goes on to its next statement unless that statement blocks, and
\* a child always acts on a signal it has received.  The child is free never
\* to exit on its own.
LiveSpec ==
    /\ InitDenied
    /\ [][LiveNext]_vars
    /\ WF_vars(ProgramStep)
    /\ WF_vars(ChildTakesSignal)

\* ------------------------------------------------------------------ claims

Finished == outcome \in {"returned", "raised"}
Ticks(t) == IF t < 0 THEN 0 ELSE t
FrameOrdered(f) ==
    /\ f.termSent => f.slept1 >= Ticks(req.int_timeout)
    /\ f.killSent => f.termSent /\ f.slept2 >= Ticks(req.kill_timeout)

\* C1: in every call of _kill_child_process, the termination request is
\* made only after the child was polled as running through the whole first
\* grace period, the kill request only after the termination request and
\* the whole second grace period, and no kill request is ever made without
\* an earlier termination request.
C1_EscalationOrdered ==
    /\ \A i \in 1..Len(hstack) : FrameOrdered(hstack[i])
    /\ \A k \in 1..Len(killLog) :
          killLog[k].sig = SIGKILL =>
              \E j \in 1..(k - 1) : killLog[j].sig = SIGTERM

C1_Witness ==
    /\ hstack # << >>
    /\ Top.killSent /\ Top.termSent
    /\ req.int_timeout >= 1 /\ req.kill_timeout >= 1
    /\ Top.slept1 >= 1 /\ Top.slept2 >= 1

\* C2: whenever run() returns or raises after the child was spawned, the
\* child's exit status has been collected.
C2_ChildReaped ==
    Finished /\ proc.created => ~IsNone(proc.returncode)

\* C3: when run() is left, the SIGINT and SIGTERM dispositions equal the
\* dispositions in effect immediately before the call.
C3_DispositionsRestored ==
    Finished => disp = prior

\* A step of send_signal taken by the running _kill_child_process frame.
SendStep ==
    /\ hstack # << >>
    /\ Top.pc \in {"k192", "k199"}
    /\ Len(hstack') = Len(hstack)
    /\ hstack'[Len(hstack)].pc # Top.pc

\* C10: send_signal on a handle whose exit status is recorded makes no
\* os.kill call and no sudo fallback, leaves the handle (and the child)
\* unchanged and raises nothing.
C10_SendIsNoopWhenReaped ==
    [][SendStep /\ ~IsNone(proc.returncode) =>
          /\ killLog' = killLog
          /\ sudoCalls' = sudoCalls
          /\ proc' = proc
          /\ child' = child
          /\ pend' = pend
          /\ hstack'[Len(hstack)].pc = IF Top.pc = "k192" THEN "k193" ELSE "k205"]_vars

C10_Witness ==
    /\ lastSend = "noop"
    /\ hstack # << >> /\ Top.pc = "k193"
    /\ ~IsNone(proc.returncode)
    /\ killLog = << >>

\* The result run() hands back: returned, or carried by the exception.
HasResult ==
    \/ outcome = "returned"
    \/ outcome = "raised" /\ ~IsNone(Val(pend).result)
TheResult == IF outcome = "returned" THEN cmd_result ELSE Val(Val(pend).result)
RaisedAs(kind) == outcome = "raised" /\ Val(pend).kind = kind

\* C4: for a spawned child that ran to completion, run() with check raises
\* RunCommandError carrying the exit status exactly when the status is
\* non-zero, and with check clear returns a result with that status.
C4_CheckPolicy ==
    /\ Finished /\ proc.created /\ sigCount = 0 =>
          /\ proc.returncode = Some(child.status)
          /\ req.check /\ child.status = 0 =>
                outcome = "returned" /\ cmd_result.returncode = Some(0)
          /\ req.check /\ child.status # 0 =>
                /\ RaisedAs("RunCommandError")
                /\ TheResult.returncode = Some(child.status)
          /\ ~req.check =>
                outcome = "returned" /\ cmd_result.returncode = Some(child.status)
    /\ RaisedAs("RunCommandError") /\ proc.created =>
          req.check /\ TheResult.returncode # Some(0)
    /\ outcome = "returned" /\ proc.created =>
          /\ cmd_result.returncode = proc.returncode
          /\ req.check => cmd_result.returncode = Some(0)

C4_Witness ==
    /\ RaisedAs("RunCommandError") /\ proc.created /\ sigCount = 0
    /\ req.check /\ child.status = 1
    /\ TheResult.returncode = Some(1)

WantOut == req.redirect_stdout \/ req.capture_output
WantErr == (req.redirect_stderr \/ req.capture_output) /\ ~req.combine_stdout_stderr
FieldsMatchCapture(r) ==
    /\ ~WantOut => IsNone(r.output)
    /\ ~WantErr => IsNone(r.error)
    /\ proc.created /\ WantOut => ~IsNone(r.output)
    /\ proc.created /\ WantErr => ~IsNone(r.error)

\* C5 as stated: in every result run() produces, returned or carried by a
\* raised RunCommandError, a field is absent when its capture was not
\* requested and present when it was requested and the child ran.
C5_EveryResult == HasResult => FieldsMatchCapture(TheResult)

\* C5 amended: the same for every result run() read back from a spawned
\* child, returned or carried by the RunCommandError of a non-zero exit.
C5_ReadBackResults ==
    /\ proc.created
    /\ outcome = "returned" \/ RaisedAs("RunCommandError")
    => FieldsMatchCapture(TheResult)

C5_Witness ==
    /\ outcome = "returned" /\ proc.created
    /\ req.redirect_stdout /\ req.combine_stdout_stderr
    /\ child.wrote = << >> /\ child.wroteErr = << >>
    /\ cmd_result.output = Some(Text(<< >>))
    /\ IsNone(cmd_result.error)

\* Everything the child wrote into the stdout sink, in order.
SinkWritten ==
    child.wrote \o (IF stderr = "STDOUT" THEN child.wroteErr ELSE << >>)

\* C6: with stdout captured the child never blocks on the sink, however
\* many bytes it writes, and the returned output is exactly the bytes the
\* child wrote, decoded as UTF-8 with invalid sequences replaced.
C6_CaptureExact ==
    /\ ~ChildBlocked
    /\ outcome = "returned" /\ proc.created /\ stdout # "None" =>
          cmd_result.output = Some(Text(Decode(SinkWritten)))

C6_Witness ==
    /\ outcome = "returned" /\ proc.created /\ stdout # "None"
    /\ Len(child.wrote) > PipeBuf
    /\ child.outPlan = << >>
    /\ \E i \in 1..Len(Val(cmd_result.output).val) :
          Val(cmd_result.output).val[i] = ReplacementChar

\* C7: sudo_run as root for user root calls run with the command unchanged.
C7_RootAsRootUnwrapped ==
    sudo.ranRun /\ sudo.user = "root" /\ euid = 0 =>
        /\ req.cmd = ArrayCmd(sudo.cmd.toks)
        /\ pc \notin {"s142", "l303"} => cmd = sudo.cmd.toks
        /\ proc.created => cmd_result.cmd = sudo.cmd.toks

C7_Witness ==
    /\ sudo.ranRun /\ sudo.user = "root" /\ euid = 0
    /\ outcome = "returned"
    /\ cmd_result.cmd = <<"ls", "-l">>
    /\ ~IsNone(sudo.extra_env)

EnvOf(sd) == IF IsNone(sd.extra_env) THEN << >> ELSE Val(sd.extra_env)

\* C8: whenever sudo_run wraps, run is called with 'sudo', then '-u' and the
\* user exactly when the user is not root, then one KEY=value token per
\* extra_env entry, then '--', then the original command.
C8_WrappedVector ==
    sudo.ranRun /\ ~(sudo.user = "root" /\ euid = 0) =>
        LET argv == req.cmd.toks
            u == IF sudo.user # "root" THEN 2 ELSE 0
            n == Len(EnvOf(sudo))
        IN /\ Len(argv) = 2 + u + n + Len(sudo.cmd.toks)
           /\ argv[1] = "sudo"
           /\ sudo.user # "root" => argv[2] = "-u" /\ argv[3] = sudo.user
           /\ \A i \in 1..n :
                 argv[1 + u + i] = EnvOf(sudo)[i][1] \o "=" \o EnvOf(sudo)[i][2]
           /\ argv[2 + u + n] = "--"
           /\ SubSeq(argv, 3 + u + n, Len(argv)) = sudo.cmd.toks
           /\ n = 0 /\ sudo.user # "root" =>
                 argv = <<"sudo", "-u", sudo.user, "--">> \o sudo.cmd.toks

C8_Witness ==
    /\ sudo.ranRun /\ sudo.user = "nobody"
    /\ Len(EnvOf(sudo)) = 2
    /\ proc.created
    /\ Len(cmd_result.cmd) = 7

\* C9: sudo_run given a string command, or the shell flag, fails with an
\* assertion error before run is called and before any process is spawned.
C9_ShellRejected ==
    /\ sudo.used /\ pc # "s142"
    /\ sudo.cmd.form = "string" \/ sudo.shellKey = "True"
    => /\ RaisedAs("AssertionError")
       /\ ~sudo.ranRun
       /\ ~proc.created /\ child.state = "unspawned"
       /\ cmd = << >>

C9_Witness ==
    /\ sudo.used /\ RaisedAs("AssertionError")
    /\ sudo.cmd.form = "array" /\ sudo.shellKey = "True"
    /\ child.state = "unspawned"


\* A step in which send_signal asks the OS directly (line 238) or returns
\* at its guard, and a step in which it falls back to sudo (line 244).
DirectStep == killLog' # killLog /\ sudoCalls' = sudoCalls
FallbackStep == sudoCalls' # sudoCalls
\* The frame that took the step is still there and went on to label next.
ReturnsTo(next) ==
    /\ Len(hstack') = Len(hstack)
    /\ hstack'[Len(hstack)].pc = next
    /\ hstack'[Len(hstack)].ignored = Top.ignored
    /\ pend' = pend /\ outcome' = outcome
AfterSend == IF Top.pc \in {"k192", "k192s"} THEN "k193" ELSE "k205"

\* C11: the sudo fallback is entered only after EPERM and makes exactly one
\* call sudo_run(['kill', '-<signum>', '<pid>'], redirect_stdout=True,
\* redirect_stderr=True, check=False); when that invocation does not
\* succeed, the handle is polled, nothing is raised and the caller goes on
\* with its next statement.
C11_FallbackAbsorbsFailure ==
    [][FallbackStep =>
          /\ Top.pc \in {"k192s", "k199s"}
          /\ sudoCalls' = Append(sudoCalls, SudoCall(IF Top.pc = "k192s"
                                                     THEN SIGTERM ELSE SIGKILL))
          /\ lastSend' # "sudo_0" =>
                /\ proc' = ProcAfterPoll
                /\ ReturnsTo(AfterSend)]_vars

\* C12: a call of send_signal raises to its caller exactly when os.kill
\* failed with an error other than EPERM and ESRCH; on ESRCH the handle is
\* polled and the call returns normally.
C12_RaisesOnlyOnOtherError ==
    [][/\ DirectStep =>
            /\ lastSend' = "EOTHER" =>
                  /\ Len(hstack') = Len(hstack)
                  /\ hstack'[Len(hstack)].ignored = Top.ignored + 1
            /\ lastSend' \in {"ok", "ESRCH"} => ReturnsTo(AfterSend)
            /\ lastSend' = "ESRCH" => proc' = ProcAfterPoll
       /\ FallbackStep => ReturnsTo(AfterSend)]_vars

\* The spawn of line 381 was attempted and failed.
SpawnFailed == child.state = "failed"
NothingInstalled ==
    /\ disp = prior
    /\ old_sigint = Basic("unset") /\ old_sigterm = Basic("unset")
    /\ fired = {} /\ hstack = << >>
    /\ killLog = << >> /\ sudoCalls = << >>

\* C13: after a failed spawn no handler has been installed and no
\* escalation runs; with check set run() raises RunCommandError wrapping the
\* OSError, with a result holding the command and no exit status, and the
\* message carries the chmod hint exactly when the errno is EACCES.
C13_SpawnFailureRaises ==
    SpawnFailed =>
        /\ NothingInstalled
        /\ ~proc.created
        /\ req.check /\ Finished /\ sigCount = 0 =>
              /\ RaisedAs("RunCommandError")
              /\ Val(pend).exception = Some(Obj("OSError", child.spawnErr))
              /\ TheResult = CommandResult(child.argv, None, None, None)
              /\ child.spawnErr = "EACCES" =>
                    Val(pend).msg = child.spawnErr \o Hint
              /\ child.spawnErr # "EACCES" => Val(pend).msg = child.spawnErr

C13_Witness ==
    /\ SpawnFailed /\ req.check /\ sigCount = 0
    /\ RaisedAs("RunCommandError")
    /\ child.spawnErr = "EACCES"
    /\ Val(pend).msg = "EACCES" \o Hint
    /\ TheResult.cmd = <<"prog">> /\ IsNone(TheResult.returncode)

\* C14: after a failed spawn with check clear run() returns a result whose
\* returncode is 255 and whose error field is the error text.
C14_SpawnFailureReturned ==
    SpawnFailed /\ ~req.check /\ sigCount = 0 /\ Finished =>
        /\ outcome = "returned"
        /\ cmd_result.returncode = Some(SpawnFailCode)
        /\ ~IsNone(cmd_result.error)
        /\ Val(cmd_result.error).kind = "text"
        /\ Val(cmd_result.error).msg = IF child.spawnErr = "EACCES"
                                       THEN child.spawnErr \o Hint
                                       ELSE child.spawnErr

C16_CommandForms ==
    /\ req.cmd.form = "string" /\ req.shell /\ child.state # "unspawned" =>
          /\ child.argv = <<"/bin/bash", "-c", req.cmd.toks[1]>>
          /\ cmd = child.argv
    /\ req.cmd.form = "array" /\ ~req.shell /\ child.state # "unspawned" =>
          child.argv = req.cmd.toks
    /\ (req.cmd.form = "string" /\ ~req.shell) \/ (req.cmd.form = "array" /\ req.shell) =>
          /\ child.state = "unspawned" /\ ~proc.created
          /\ NothingInstalled
          /\ pc # "l303" => outcome \in {"raised", "killed"}
          /\ pc # "l303" /\ sigCount = 0 => RaisedAs("Exception")

C16_Witness ==
    /\ req.cmd.form = "string" /\ req.shell
    /\ outcome = "returned"
    /\ child.argv = <<"/bin/bash", "-c", "ls -l">>

\* C17: when run() ends after its temporary handler fired for a signal S
\* whose prior disposition was the default, the child has been reaped and
\* run() raises TerminateRunCommandError with a result carrying the command
\* and returncode S << 8.
C17_TerminateRaised ==
    \A s \in fired :
        Finished /\ prior[s].kind = "SIG_DFL" =>
            /\ ~IsNone(proc.returncode)
            /\ RaisedAs("TerminateRunCommandError")
            /\ TheResult.cmd = child.argv
            /\ TheResult.returncode = Some(s * 256)

\* C18 as stated: once the temporary handler has fired, run() does not
\* return a result with exit status 0.
C18_NeverSuccessAfterSignal ==
    fired # {} /\ outcome = "returned" => cmd_result.returncode # Some(0)

\* C18 amended: once the temporary handler has fired, run() returns a result
\* with exit status 0 only if the prior disposition of every observed signal
\* was SIG_IGN or a handler that returns, and the child was not ended by a
\* signal; with the default disposition or a raising handler run() raises.
C18_SuccessOnlyUnderReturningHandler ==
    fired # {} /\ outcome = "returned" =>
        /\ \A s \in fired : prior[s].kind \in {"SIG_IGN", "py_return"}
        /\ cmd_result.returncode = proc.returncode
        /\ cmd_result.returncode = Some(0) => child.status = 0
        /\ req.check => cmd_result.returncode = Some(0)

C18_Witness ==
    /\ outcome = "returned" /\ SIGINT \in fired
    /\ prior[SIGINT].kind = "py_return"
    /\ cmd_result.returncode = Some(0)
    /\ killLog # << >>

\* The environment handed to the child.
Overlay(base, extra, ce) ==
    /\ DOMAIN ce = DOMAIN base \cup Keys(extra)
    /\ \A k \in DOMAIN base :
          /\ k \in DOMAIN ce
          /\ ce[k] = IF k \in Keys(extra) THEN Lookup(extra, k) ELSE base[k]
    /\ \A k \in Keys(extra) : ce[k] = Lookup(extra, k)

\* C19: the child's environment is the base (env if given, else
\* os.environ) overlaid with extra_env, no base variable is missing from it,
\* and no step of run() changes os.environ, env or extra_env (the steps of
\* pre-upload.py's main() are not steps of run()).
C19_ChildEnvironment ==
    /\ [](~IsNone(child.env) =>
             Overlay(IF IsNone(req.env) THEN environ ELSE Val(req.env),
                     ExtraOrEmpty(req.extra_env), Val(child.env)))
    /\ [][/\ ~pre.used => environ' = environ
          /\ pc # "s142" => req' = req
          /\ sudo'.extra_env = sudo.extra_env]_vars

C19_Witness ==
    /\ outcome = "returned"
    /\ req.env = Some(("A" :> "/bin") @@ ("PATH" :> "/bin"))
    /\ req.extra_env = Some(<<<<"A", "b">>, <<"FOO", "bar">>>>)
    /\ Val(child.env) = ("A" :> "b") @@ ("PATH" :> "/bin") @@ ("FOO" :> "bar")
    /\ environ = ("A" :> "/bin")

\* C20: RunCommandError.__init__ raises ValueError when its exception
\* argument is neither None nor an exception instance, and returns the new
\* error object otherwise.
C20_ExceptionArgChecked ==
    ~IsNone(self) /\ pc = "done" =>
        LET x == Val(self).exception
        IN IF IsNone(x) \/ Val(x).type \in {"Exception", "OSError", "ValueError"}
           THEN /\ outcome = "constructed"
                /\ pend = self
           ELSE RaisedAs("ValueError")

C20_Witness ==
    /\ RaisedAs("ValueError")
    /\ ~IsNone(self)
    /\ Val(self).exception = Some(Obj("str", ""))

\* C21: stringify(error, output) gives the line with the exit status and
\* the rendered command, then the captured error text if requested and
\* non-empty, then the captured output if requested and non-empty, then the
\* caller message if non-empty, each as one item of the newline-joined
\* text; str() gives what stringify() gives with both included.
C21_StringifyLayout ==
    ~IsNone(call) /\ Val(call).fn \in {"stringify", "str"} =>
        LET c == Val(call)
            e == Val(pend)
            r == Val(e.result)
            withErr == c.error /\ Truthy(r.error)
            withOut == c.output /\ Truthy(r.output)
            n == 1 + (IF withErr THEN 1 ELSE 0) + (IF withOut THEN 1 ELSE 0)
                   + (IF e.msg # "" THEN 1 ELSE 0)
        IN /\ ~c.raised
           /\ Len(c.items) = n
           /\ c.items[1].part = "head"
           /\ c.items[1].val = HeadLine(r)
           /\ withErr => c.items[2].part = "error" /\ c.items[2].val = Val(r.error)
           /\ withOut =>
                 LET k == IF withErr THEN 3 ELSE 2
                 IN c.items[k].part = "output" /\ c.items[k].val = Val(r.output)
           /\ e.msg # "" => c.items[n].part = "msg" /\ c.items[n].val = e.msg
           /\ c.fn = "str" => c.error /\ c.output

\* How a POSIX shell splits a line into words: blanks separate words, a
\* single quote takes everything up to the next one literally, a backslash
\* outside quotes takes the next character literally.
RECURSIVE Lex(_, _, _, _)
Lex(s, mode, cur, acc) ==
    IF s = << >> THEN (IF mode = "space" THEN acc ELSE Append(acc, cur))
    ELSE IF mode = "squote"
         THEN IF Head(s) = "'" THEN Lex(Tail(s), "word", cur, acc)
              ELSE Lex(Tail(s), "squote", Append(cur, Head(s)), acc)
    ELSE IF Head(s) = " "
         THEN Lex(Tail(s), "space", << >>,
                  IF mode = "word" THEN Append(acc, cur) ELSE acc)
    ELSE IF Head(s) = "'" THEN Lex(Tail(s), "squote", cur, acc)
    ELSE IF Head(s) = "\\"
         THEN IF Len(s) >= 2 THEN Lex(Tail(Tail(s)), "word", Append(cur, s[2]), acc)
              ELSE Lex(Tail(s), "word", cur, acc)
    ELSE Lex(Tail(s), "word", Append(cur, Head(s)), acc)
Tokenize(s) == Lex(s, "space", << >>, << >>)

HasSpecial(tok) == \E i \in 1..Len(tok) : tok[i] \in ShellSpecial
CmdstrCalled == ~IsNone(call) /\ Val(call).fn = "cmdstr"

\* C22 as stated: for every argument vector the rendered string is split
\* by a shell into exactly the original vector, a token is rendered quoted
\* exactly when it contains whitespace or a shell-significant character,
\* and the empty vector renders as the empty string.
C22_RoundTripEveryVector ==
    CmdstrCalled =>
        LET v == Val(call).cmd
        IN /\ Tokenize(Val(call).ret) = v
           /\ \A i \in 1..Len(v) :
                 IF HasSpecial(v[i]) THEN ShellQuote(v[i]) # v[i]
                 ELSE ShellQuote(v[i]) = v[i]
           /\ v = << >> => Val(call).ret = << >>

\* C22 amended: the same for every argument vector without an empty token.
C22_RoundTripNonEmptyTokens ==
    CmdstrCalled /\ (\A i \in 1..Len(Val(call).cmd) : Val(call).cmd[i] # << >>) =>
        LET v == Val(call).cmd
        IN /\ Tokenize(Val(call).ret) = v
           /\ \A i \in 1..Len(v) :
                 IF HasSpecial(v[i]) THEN ShellQuote(v[i]) # v[i]
                 ELSE ShellQuote(v[i]) = v[i]
           /\ v = << >> => Val(call).ret = << >>

C22_Witness ==
    /\ CmdstrCalled
    /\ Val(call).cmd = <<<<"a">>, <<"'", " ">>>>
    /\ Val(call).ret = <<"a", " ", "'", "'", "\\", "'", "'", " ", "'">>
    /\ Tokenize(Val(call).ret) = Val(call).cmd

\* C23: in every call of _kill_child_process, a termination request made
\* under a first grace period of zero or less was preceded by no sleep, and
\* a kill request made under a second grace period of zero or less was
\* preceded by no sleep of the second loop.
C23_ZeroGraceNoSleep ==
    \A i \in 1..Len(hstack) :
        /\ hstack[i].termSent /\ req.int_timeout <= 0 => hstack[i].slept1 = 0
        /\ hstack[i].killSent /\ req.kill_timeout <= 0 => hstack[i].slept2 = 0

\* The moment the child's exit, not caused by a signal, is on record.
OwnExit == child.state \in {"zombie", "reaped", "gone"} /\ child.status >= 0
\* A step taken by the running _kill_child_process frame inside lines
\* 188-205.
EscalationStep ==
    /\ hstack # << >>
    /\ Top.pc \in {"k188", "k192", "k192s", "k193", "k197", "k199", "k199s", "k205"}
    /\ hstack' # hstack
    /\ sigCount' = sigCount \/ sudoCalls' # sudoCalls

\* C24: once the child has exited on its own, no step of the escalation
\* sequence raises, and once a poll has recorded the exit no signal request
\* is made against the child's pid, neither by os.kill nor through sudo.
C24_ExitTolerated ==
    [][OwnExit /\ EscalationStep =>
          /\ Len(hstack') = Len(hstack)
          /\ pend' = pend
          /\ ~IsNone(proc.returncode) => killLog' = killLog]_vars

\* The temporary handler has started for s and the inner finally of run()
\* has not yet restored the disposition of s.
Handling(s) ==
    /\ s \in fired /\ outcome = "none"
    /\ pc \in {"l390", "l395", "l396", "l398"} \cup
              (IF s = SIGTERM THEN {"l399"} ELSE {})

\* C25: from the moment the temporary handler starts for a signal until
\* run() restores the dispositions, that signal is ignored and
\* _kill_child_process is not entered for it again.
C25_NoReentry ==
    [][\A s \in Signals : Handling(s) => entries'[s] = entries[s]]_vars

\* C27: every signal request made against the child's pid, by os.kill or
\* through sudo, is made while the handle's exit status is not recorded.
C27_EveryRequestGuarded ==
    \A k \in 1..Len(killLog) : ~killLog[k].reaped

\* The frames of _kill_child_process that are inside lines 187-205.
Escalating == {i \in 1..Len(hstack) :
                 hstack[i].pc \in {"k188", "k192", "k192s", "k193", "k197",
                                   "k199", "k199s", "k205"}}

\* C28: at most one call of _kill_child_process is inside its escalation
\* sequence at any time, and a call made for a signal leaves the stack only
\* from line 207, where it relays the signal to its prior handler.
C28_SingleEscalation ==
    /\ [](Cardinality(Escalating) <= 1)
    /\ [][\A i \in 1..Len(hstack) :
             hstack[i].signum # 0 /\ Len(hstack') < i /\ outcome' # "killed"
             => hstack[i].pc = "k207"]_vars

\* C29: when no signal is delivered during run() and the child was
\* spawned, no signal request is ever made against the child; the cleanup
\* call of line 435 finds the exit status recorded, goes from line 186
\* straight to line 207 without a sleep, changes no disposition and raises
\* nothing, so run() ends as lines 415-421 decided.
C29_QuietCleanup ==
    sigCount = 0 /\ proc.created =>
        /\ killLog = << >> /\ sudoCalls = << >>
        /\ Len(hstack) <= 1
        /\ hstack # << >> =>
              /\ Top.signum = 0
              /\ Top.pc \in {"k175", "k186", "k207"}
              /\ Top.slept1 = 0 /\ Top.slept2 = 0
              /\ ~Top.termSent /\ ~Top.killSent /\ Top.ignored = 0
              /\ ~IsNone(proc.returncode)
              /\ pc = "l436"
        /\ pc \in {"l401", "l415", "l431", "l436", "l439", "done"} => disp = prior
        /\ pc \in {"l436", "l439", "done"} =>
              IF req.check /\ proc.returncode # Some(0)
              THEN /\ ~IsNone(pend)
                   /\ Val(pend).kind = "RunCommandError"
                   /\ Val(Val(pend).result).returncode = proc.returncode
              ELSE IsNone(pend)

C29_Witness ==
    /\ sigCount = 0 /\ proc.created
    /\ hstack # << >> /\ Top.signum = 0 /\ Top.pc = "k207"
    /\ ~IsNone(pend)
    /\ child.wrote # << >>

\* C30: whenever _run_project_hooks has returned to main(), the working
\* directory is the one main() was started in, so every project starts
\* from the same directory.
C30_CwdRestored ==
    pre.used /\ pc \in {"m213", "p151", "m217", "done"} => cwd = StartDir

\* The answers of os.kill the claim names: delivered, permission denied,
\* no such process.
NamedAnswers == {"ok", "EPERM", "ESRCH"}

\* C26: in every call of _kill_child_process the number of sleeps of each
\* loop is bounded by its grace period, and once the temporary handler has
\* started for a signal, with os.kill answering delivered, permission denied
\* or no such process, run() eventually returns or raises.
C26_EscalationEnds ==
    /\ [](\A i \in 1..Len(hstack) :
            /\ hstack[i].slept1 <= Ticks(req.int_timeout) + 1
            /\ hstack[i].slept2 <= Ticks(req.kill_timeout) + 1)
    /\ ((fired # {} /\ osKill \subseteq NamedAnswers) ~> outcome # "none")

====
